---------------------------- MODULE Spec2Model ----------------------------
(***************************************************************************)
(* Model of agent.py (the CI health agent) and of the reply of             *)
(* mcp_mock.py.                                                            *)
(*                                                                         *)
(* Python values are records with a tag field t, so that values of         *)
(* different Python types can be compared.  A Python string is a sequence  *)
(* of chunks; the chunk "/" is the single character '/', every other chunk *)
(* is a run of characters that neither starts nor ends with '/'.           *)
(* A float that is the quotient of two integers is kept as the exact       *)
(* fraction num/den: for the magnitudes handled here (at most some hundred *)
(* runs, durations of some thousand seconds) the correctly rounded         *)
(* quotient compares with the literals 0.6, 0.9 and 1200 exactly as the    *)
(* fraction compares with 3/5, 9/10 and 1200.                              *)
(***************************************************************************)
EXTENDS Integers, Sequences, FiniteSets, TLC

VARIABLES
    pc,            \* position of main: start, discover_contents, discover_raw,
                   \*   fetch, forward, done; reduce, classify, classified in SpecMetrics
    args,          \* parsed command line: repo, mcp_url, per_page, no_mcp
    env,           \* process environment
    repo,          \* main's local repo
    token,         \* main's local token
    mcp_url,       \* main's local mcp_url
    discovered,    \* value returned by discover_mcp_from_repo (None before it ran)
    requests,      \* HTTP requests issued so far, in order
    runs,          \* value returned by fetch_workflow_runs
    metrics,       \* value returned by compute_metrics
    payload,       \* the payload main builds
    i,             \* number of candidates try_send_to_mcp has tried
    resp,          \* the response to (or the exception of) the latest HTTP request
    mcp_response,  \* value returned by try_send_to_mcp
    analysis,      \* value returned by local_analysis
    stdout,        \* the JSON documents main printed on standard output, in order
                   \*   (payload, analysis, server response; not the headings)
    exit_code      \* process exit status, -1 while running

vars == <<pc, args, env, repo, token, mcp_url, discovered, requests, runs,
          metrics, payload, i, resp, mcp_response, analysis, stdout, exit_code>>

-----------------------------------------------------------------------------
(* Bounds of the model *)

\* longest run of equal records in one block of a generated run list
MaxBlockLen == 6
\* run lists up to this length are generated exhaustively
MaxShortLen == 2
\* longest run list the run-list fetch of main answers with
MaxFetchLen == 2

-----------------------------------------------------------------------------
(* Python values *)

PyNone == [t |-> "none"]
Str(s) == [t |-> "str", v |-> s]
\* an int, by its decimal digits
Num(d) == [t |-> "int", v |-> <<d>>]

\* Python truth value of None, a str or an int
Truthy(x) ==
    CASE x.t = "none" -> FALSE
      [] x.t = "str"  -> x.v # <<>>
      [] x.t = "int"  -> x.v # <<"0">>
      [] OTHER        -> TRUE

\* Python's `a or b`
Or(a, b) == IF Truthy(a) THEN a ELSE b

Ratio(n, d) == [t |-> "float", num |-> n, den |-> d]

\* a / b < p / q and a / b > p / q for positive denominators
RatioLt(r, p, q) == r.num * q < p * r.den
RatioGt(r, p, q) == r.num * q > p * r.den

RECURSIVE SumSeq(_)
SumSeq(s) == IF s = <<>> THEN 0 ELSE Head(s) + SumSeq(Tail(s))

-----------------------------------------------------------------------------
(* parse_iso and the duration of a run *)

\* A timestamp string is [t |-> "str", secs, zone]: zone "Z" (GitHub's form),
\* "+00:00", "naive" (no offset) or "bad" (not ISO-8601); secs is the instant.
Stamp(secs, zone) == [t |-> "str", v |-> <<"ts">>, secs |-> secs, zone |-> zone]

\* parse_iso(s): a trailing Z becomes +00:00, then datetime.fromisoformat;
\* the result is a datetime, or the exception fromisoformat raises
parse_iso(s) ==
    LET z == IF s.zone = "Z" THEN "+00:00" ELSE s.zone
    IN  IF z = "bad"
        THEN [t |-> "raise", exc |-> "ValueError"]
        ELSE [t |-> "datetime", secs |-> s.secs, aware |-> (z # "naive")]

\* (parse_iso(updated) - parse_iso(created)).total_seconds(): subtracting an
\* aware and a naive datetime raises TypeError
DurationOf(created, updated) ==
    LET u == parse_iso(updated)
        c == parse_iso(created)
    IN  IF u.t = "raise" THEN u
        ELSE IF c.t = "raise" THEN c
        ELSE IF u.aware # c.aware THEN [t |-> "raise", exc |-> "TypeError"]
        ELSE [t |-> "float", secs |-> u.secs - c.secs]

-----------------------------------------------------------------------------
(* compute_metrics *)

\* recent_failures[:10]
RecentLimit == 10

\* conclusion in ("failure", "cancelled", "timed_out")
\* (faulty variant: a cancelled run is not counted)
CountsAsFailureCancelledDropped(c) == c \in {"failure", "timed_out"}
CountsAsFailure(c) == c \in {"failure", "cancelled", "timed_out"}

\* conclusion in ("failure", "timed_out")
IsRecentFailure(c) == c \in {"failure", "timed_out"}

\* s[:n]
\* (faulty variant: s[-n:])
TakeLast(s, n) == IF Len(s) <= n THEN s ELSE SubSeq(s, Len(s) - n + 1, Len(s))
Take(s, n) == IF Len(s) <= n THEN s ELSE SubSeq(s, 1, n)

\* the entry appended to recent_failures for run r
FailureEntry(r) ==
    [id |-> r.id, name |-> r.name, conclusion |-> r.conclusion, html_url |-> r.html_url]

\* one iteration of the loop `for r in runs` on the accumulators
LoopBody(acc, r) ==
    LET conclusion == r.conclusion
        dur == IF Truthy(r.created_at) /\ Truthy(r.updated_at)
               THEN DurationOf(r.created_at, r.updated_at)
               ELSE [t |-> "skip"]
    IN  [successes |-> IF conclusion = "success"
                       THEN acc.successes + 1 ELSE acc.successes,
         failures  |-> IF conclusion # "success" /\ CountsAsFailure(conclusion)
                       THEN acc.failures + 1 ELSE acc.failures,
         durations |-> IF dur.t = "float" /\ dur.secs >= 0
                       THEN Append(acc.durations, dur.secs) ELSE acc.durations,
         recent_failures |-> IF IsRecentFailure(conclusion)
                             THEN Append(acc.recent_failures, FailureEntry(r))
                             ELSE acc.recent_failures]

RECURSIVE Loop(_, _)
Loop(acc, rs) == IF rs = <<>> THEN acc ELSE Loop(LoopBody(acc, Head(rs)), Tail(rs))

\* success_rate = (successes / total) if total else None
\* (faulty variant: a rate of 0 for the empty list)
SuccessRateZeroWhenEmpty(successes, total) == Ratio(successes, IF total # 0 THEN total ELSE 1)
SuccessRate(successes, total) == IF total # 0 THEN Ratio(successes, total) ELSE PyNone

compute_metrics(rs) ==
    LET total == Len(rs)
        acc == Loop([successes |-> 0, failures |-> 0, durations |-> <<>>,
                     recent_failures |-> <<>>], rs)
    IN  [total_runs  |-> total,
         successes   |-> acc.successes,
         failures    |-> acc.failures,
         success_rate |-> SuccessRate(acc.successes, total),
         avg_duration_seconds |-> IF acc.durations # <<>>
                                  THEN Ratio(SumSeq(acc.durations), Len(acc.durations))
                                  ELSE PyNone,
         recent_failures |-> Take(acc.recent_failures, RecentLimit)]

-----------------------------------------------------------------------------
(* local_analysis *)

\* the recommendations; the source writes a dash where these have " - "
RecNoRuns == "No workflow runs found for the repository."
RecBelow60 == "CI success rate below 60% - investigate flaky or failing tests."
RecBetween == "CI success rate between 60% and 90% - look for intermittent failures."
RecAbove90 == "CI success rate above 90%."
RecSlow == "Average workflow duration is high (>20 minutes). Consider speeding up or splitting jobs."

\* the if/elif/else on success_rate: the status and the recommendation it adds
\* (faulty variant: healthy only above 0.9)
RateVerdictStrictHealthy(success_rate) ==
    IF RatioLt(success_rate, 3, 5)
    THEN [status |-> "unhealthy", rec |-> RecBelow60]
    ELSE IF ~RatioGt(success_rate, 9, 10)
    THEN [status |-> "degraded", rec |-> RecBetween]
    ELSE [status |-> "healthy", rec |-> RecAbove90]
RateVerdict(success_rate) ==
    IF RatioLt(success_rate, 3, 5)
    THEN [status |-> "unhealthy", rec |-> RecBelow60]
    ELSE IF RatioLt(success_rate, 9, 10)
    THEN [status |-> "degraded", rec |-> RecBetween]
    ELSE [status |-> "healthy", rec |-> RecAbove90]

\* avg_dur is not None and avg_dur > 20 * 60
IsSlow(avg_dur) == avg_dur.t # "none" /\ RatioGt(avg_dur, 20 * 60, 1)

local_analysis(m) ==
    LET total == m.total_runs
        success_rate == m.success_rate
        avg_dur == m.avg_duration_seconds
        rated == success_rate.t # "none"
        status == IF total = 0 THEN "no-data"
                  ELSE IF rated THEN RateVerdict(success_rate).status
                  ELSE "unknown"
        recommendations ==
            IF total = 0 THEN <<RecNoRuns>>
            ELSE (IF rated THEN <<RateVerdict(success_rate).rec>> ELSE <<>>)
                 \o (IF IsSlow(avg_dur) THEN <<RecSlow>> ELSE <<>>)
    IN  [status |-> status, recommendations |-> recommendations, metrics |-> m]

-----------------------------------------------------------------------------
(* Run lists *)

Conclusions == {"success", "failure", "cancelled", "timed_out", "skipped", "null"}

Timing(c, u) == [created_at |-> c, updated_at |-> u]

\* created_at / updated_at of a run that took 60 s and of one that took 2400 s
BlockTimings ==
    { Timing(Stamp(0, "Z"), Stamp(60, "Z")),
      Timing(Stamp(0, "Z"), Stamp(2400, "Z")) }

\* and: no timestamps, exactly 1200 s, updated before created, updated empty,
\* updated not ISO-8601, updated without offset
Timings ==
    BlockTimings \cup
    { Timing(PyNone, PyNone),
      Timing(Stamp(0, "+00:00"), Stamp(1200, "Z")),
      Timing(Stamp(60, "Z"), Stamp(0, "Z")),
      Timing(Stamp(0, "Z"), Str(<<>>)),
      Timing(Stamp(0, "Z"), Stamp(60, "bad")),
      Timing(Stamp(0, "Z"), Stamp(60, "naive")) }

Kinds == { [conclusion |-> c, timing |-> tm] : c \in Conclusions, tm \in Timings }

\* the run records of a list of kinds; a run's id is its position in the list
MkRuns(ks) ==
    [k \in 1..Len(ks) |->
        [id |-> k, name |-> "CI", conclusion |-> ks[k].conclusion,
         created_at |-> ks[k].timing.created_at,
         updated_at |-> ks[k].timing.updated_at,
         html_url |-> "https://github.com/o/r/actions/runs"]]

ShortLists == UNION { [1..n -> Kinds] : n \in 0..MaxShortLen }

Block(c, tm, n) == [k \in 1..n |-> [conclusion |-> c, timing |-> tm]]

\* the conclusions of the blocks: "null" stands for every conclusion that is
\* none of the four
BlockConclusions == {"success", "failure", "cancelled", "timed_out", "null"}

\* three blocks of equal records each, all with the same timing
BlockLists ==
    { Block(c1, tm, n1) \o Block(c2, tm, n2) \o Block(c3, tm, n3) :
        c1 \in BlockConclusions, c2 \in BlockConclusions, c3 \in BlockConclusions,
        n1 \in 0..MaxBlockLen, n2 \in 0..MaxBlockLen, n3 \in 0..MaxBlockLen,
        tm \in BlockTimings }

RunLists == { MkRuns(ks) : ks \in ShortLists \cup BlockLists }

\* the run lists the run-list fetch of main answers with
FetchKinds ==
    { [conclusion |-> "success", timing |-> Timing(Stamp(0, "Z"), Stamp(60, "Z"))],
      [conclusion |-> "failure", timing |-> Timing(Stamp(0, "Z"), Stamp(2400, "Z"))] }

FetchLists == { MkRuns(ks) : ks \in UNION { [1..n -> FetchKinds] : n \in 0..MaxFetchLen } }

-----------------------------------------------------------------------------
(* HTTP: responses and exceptions *)

\* requests.get / requests.post raised instead of returning a response
Raised == [t |-> "raise"]
Response(code, body) == [t |-> "response", status_code |-> code, body |-> body]

\* a body is text that is not JSON, or the text of a JSON value
NotJson == [t |-> "text"]
Json(value) == [t |-> "json", value |-> value]

JNull == PyNone
JList == [t |-> "list"]

\* resp.json(): the value, or the exception
JsonOf(body) == IF body.t = "json" THEN body.value ELSE Raised

-----------------------------------------------------------------------------
(* discover_mcp_from_repo *)

DiscoveredUrl == <<"http:", "/", "/", "disc", "/">>

\* the JSON values .github/mcp.json may hold: an array, an object without
\* mcp_url, and objects whose mcp_url is "", a URL, 8080 or 0
Configs ==
    { JList } \cup
    { [t |-> "dict", mcp_url |-> m] :
        m \in { PyNone, Str(<<>>), Str(DiscoveredUrl), Num("8080"), Num("0") } }

ConfigTexts == { NotJson } \cup { Json(c) : c \in Configs }

\* the "content" field of the Contents API: base64 text, which decodes to the
\* file's text or fails in b64decode or in decode("utf-8")
Base64(decodes, raw) == [t |-> "str", v |-> <<"base64">>, decodes |-> decodes, raw |-> raw]

ContentFields ==
    { PyNone, Str(<<>>), Base64("binascii.Error", NotJson),
      Base64("UnicodeDecodeError", NotJson) }
    \cup { Base64("ok", raw) : raw \in ConfigTexts }

ContentsResponses ==
    { Raised, Response(404, NotJson), Response(200, NotJson), Response(200, Json(JList)) }
    \cup { Response(200, Json([t |-> "dict", content |-> c])) : c \in ContentFields }

RawResponses ==
    { Raised, Response(404, NotJson) } \cup { Response(200, raw) : raw \in ConfigTexts }

\* mcp = cfg.get("mcp_url"); if mcp: return mcp.  None when nothing is returned;
\* cfg.get raises AttributeError when cfg is not an object
ConfigUrl(cfg) ==
    IF cfg.t = "raise" \/ cfg.t # "dict" THEN PyNone
    ELSE IF Truthy(cfg.mcp_url) THEN cfg.mcp_url ELSE PyNone

\* the Contents API attempt: the value returned from inside it, None when the
\* function goes on to the raw URL
ContentsLookup(r) ==
    IF r.t = "raise" THEN PyNone
    ELSE IF r.status_code # 200 THEN PyNone
    ELSE LET j == JsonOf(r.body)
         IN  IF j.t = "raise" \/ j.t # "dict" THEN PyNone
             ELSE IF ~Truthy(j.content) THEN PyNone
             ELSE IF j.content.decodes # "ok" THEN PyNone
             ELSE ConfigUrl(JsonOf(j.content.raw))

\* the raw.githubusercontent.com attempt: the value the function returns
RawLookup(r2) ==
    IF r2.t = "raise" THEN PyNone
    ELSE IF r2.status_code # 200 THEN PyNone
    ELSE ConfigUrl(JsonOf(r2.body))

ConfigPath == <<".github", "/", "mcp.json">>

ContentsRequest(rp, tk) ==
    [op |-> "discover_mcp_from_repo", method |-> "GET",
     url |-> <<"https:", "/", "/", "api.github.com", "/", "repos", "/">> \o rp.v
             \o <<"/", "contents", "/">> \o ConfigPath,
     auth |-> Truthy(tk)]

RawRequest(rp) ==
    [op |-> "discover_mcp_from_repo", method |-> "GET",
     url |-> <<"https:", "/", "/", "raw.githubusercontent.com", "/">> \o rp.v
             \o <<"/", "main", "/">> \o ConfigPath,
     auth |-> FALSE]

-----------------------------------------------------------------------------
(* fetch_workflow_runs *)

RunsRequest(rp, tk, per_page) ==
    [op |-> "fetch_workflow_runs", method |-> "GET",
     url |-> <<"https:", "/", "/", "api.github.com", "/", "repos", "/">> \o rp.v
             \o <<"/", "actions", "/", "runs?per_page=", per_page>>,
     auth |-> Truthy(tk)]

\* the answers of the run-list endpoint: no answer, an error status, a body that
\* is not JSON, a JSON array, an object without workflow_runs, an object whose
\* workflow_runs is null, and objects with a run list
RunsResponses ==
    { Raised, Response(500, NotJson), Response(200, NotJson), Response(200, Json(JList)),
      Response(200, Json([t |-> "dict", has_runs |-> FALSE, workflow_runs |-> JNull])),
      Response(200, Json([t |-> "dict", has_runs |-> TRUE, workflow_runs |-> JNull])) }
    \cup { Response(200, Json([t |-> "dict", has_runs |-> TRUE,
                               workflow_runs |-> [t |-> "list", v |-> l]])) :
            l \in FetchLists }

\* what fetch_workflow_runs returns for the response r, or the exception
fetch_workflow_runs(r) ==
    IF r.t = "raise" THEN Raised
    ELSE IF r.status_code >= 400 THEN Raised
    ELSE LET data == JsonOf(r.body)
         IN  IF data.t = "raise" \/ data.t # "dict" THEN Raised
             ELSE IF data.has_runs THEN data.workflow_runs
             ELSE [t |-> "list", v |-> <<>>]

-----------------------------------------------------------------------------
(* mcp_mock.py and try_send_to_mcp *)

MockPaths == { <<"/", "predict">>, <<"/", "analyze">>, <<"/", "v1", "/", "predict">>,
               <<"/", "mcp", "/", "predict">>, <<"/">> }

\* Handler.do_POST of the mock server for a JSON payload
do_POST(path, pl) ==
    IF path \notin MockPaths
    THEN Response(404, Json([t |-> "dict", error |-> "unknown endpoint"]))
    ELSE LET total == pl.metrics.total_runs
         IN  Response(200, Json([t |-> "dict", status |-> "ok",
                                 received_total_runs |-> total,
                                 prediction |-> IF total > 0 THEN "no-issues" ELSE "no-data"]))

\* candidates
\* (faulty variant: the empty suffix first)
CandidatesRootFirst ==
    << <<>>, <<"/", "predict">>, <<"/", "analyze">>, <<"/", "v1", "/", "predict">>,
       <<"/", "mcp", "/", "predict">> >>
Candidates ==
    << <<"/", "predict">>, <<"/", "analyze">>, <<"/", "v1", "/", "predict">>,
       <<"/", "mcp", "/", "predict">>, <<>> >>

\* s.rstrip("/")
RECURSIVE rstrip(_)
rstrip(s) ==
    IF s # <<>> /\ s[Len(s)] = "/" THEN rstrip(SubSeq(s, 1, Len(s) - 1)) ELSE s

\* endpoint = mcp_url.rstrip("/") + suffix
Endpoint(url, suffix) == rstrip(url.v) \o suffix

PostRequest(endpoint) ==
    [op |-> "try_send_to_mcp", method |-> "POST", url |-> endpoint, auth |-> FALSE]

\* the answers a server may give to a POST of the payload to the suffix: no
\* answer, 404, 500, and 200 with the mock's reply, with the JSON values null and
\* {}, and with a body that is not JSON
PostResponses(suffix, pl) ==
    { Raised, Response(404, NotJson), Response(500, Json(JNull)),
      do_POST(IF suffix = <<>> THEN <<"/">> ELSE suffix, pl),
      Response(200, Json(JNull)), Response(200, Json([t |-> "dict"])),
      Response(200, NotJson) }

\* the value returned for a 200 response: resp.json(), or {"raw_text": resp.text}
Returned(r) ==
    LET j == JsonOf(r.body)
    IN  IF j.t = "raise" THEN [t |-> "dict", raw_text |-> r.body] ELSE j

\* whether this iteration ends with the return of a value
Answers200(r) == r.t = "response" /\ r.status_code = 200

-----------------------------------------------------------------------------
(* main *)

DefaultUrl == Str(<<"http:", "/", "/", "127.0.0.1:8080">>)

CliUrl == Str(<<"http:", "/", "/", "cli", "/">>)
GithubEnvUrl == Str(<<"http:", "/", "/", "gh">>)
ServerEnvUrl == Str(<<"http:", "/", "/", "env", "/", "/">>)

\* the command lines and environments main is started with
ArgsSet ==
    [repo : { PyNone, Str(<<"o", "/", "r">>) },
     mcp_url : { PyNone, Str(<<>>), CliUrl },
     per_page : { "50" },
     no_mcp : BOOLEAN]

EnvSet ==
    [GITHUB_REPOSITORY : { PyNone, Str(<<>>), Str(<<"e", "/", "r">>) },
     GITHUB_TOKEN : { PyNone, Str(<<"token">>) },
     GITHUB_MCP_URL : { PyNone, Str(<<>>), GithubEnvUrl },
     MCP_SERVER_URL : { PyNone, Str(<<>>), ServerEnvUrl }]

\* the state before main runs; InitMetrics differs in pc and runs only
Idle ==
    /\ repo = PyNone
    /\ token = PyNone
    /\ mcp_url = PyNone
    /\ discovered = PyNone
    /\ requests = <<>>
    /\ metrics = PyNone
    /\ payload = PyNone
    /\ i = 0
    /\ resp = PyNone
    /\ mcp_response = PyNone
    /\ analysis = PyNone
    /\ stdout = <<>>
    /\ exit_code = -1

Init ==
    /\ pc = "start"
    /\ args \in ArgsSet
    /\ env \in EnvSet
    /\ runs = <<>>
    /\ Idle

\* return n
Exit(n) == pc' = "done" /\ exit_code' = n

\* mcp_url from the command line and the environment, before discovery
\* (faulty variant: MCP_SERVER_URL before GITHUB_MCP_URL)
StaticUrlServerEnvFirst(a, e) ==
    IF Truthy(a.mcp_url) THEN a.mcp_url
    ELSE Or(e.MCP_SERVER_URL, e.GITHUB_MCP_URL)
StaticUrl(a, e) ==
    IF Truthy(a.mcp_url) THEN a.mcp_url
    ELSE Or(e.GITHUB_MCP_URL, e.MCP_SERVER_URL)

\* whether main calls discover_mcp_from_repo
NeedsDiscovery(a, e) == ~Truthy(StaticUrl(a, e))

\* main after discover_mcp_from_repo returned d: if discovered: mcp_url = discovered;
\* if not mcp_url: mcp_url = default
AfterDiscovery(url, d) ==
    LET u == IF Truthy(d) THEN d ELSE url
    IN  IF ~Truthy(u) THEN DefaultUrl ELSE u

\* main up to its first HTTP request: the arguments, the repository, the token
\* and the URL the command line or the environment gives
Start ==
    /\ pc = "start"
    /\ repo' = Or(args.repo, env.GITHUB_REPOSITORY)
    /\ IF ~Truthy(repo')
       THEN /\ Exit(2)
            /\ UNCHANGED <<token, mcp_url>>
       ELSE /\ token' = env.GITHUB_TOKEN
            /\ mcp_url' = StaticUrl(args, env)
            /\ pc' = IF NeedsDiscovery(args, env) THEN "discover_contents" ELSE "fetch"
            /\ UNCHANGED exit_code
    /\ UNCHANGED <<args, env, discovered, requests, runs, metrics, payload, i, resp,
                   mcp_response, analysis, stdout>>

\* discover_mcp_from_repo: the GET of the Contents API and what follows it up
\* to the next request
DiscoverContents ==
    /\ pc = "discover_contents"
    /\ \E r \in ContentsResponses :
        LET found == ContentsLookup(r)
        IN  /\ requests' = Append(requests, ContentsRequest(repo, token))
            /\ resp' = r
            /\ IF Truthy(found)
               THEN /\ discovered' = found
                    /\ mcp_url' = AfterDiscovery(mcp_url, found)
                    /\ pc' = "fetch"
               ELSE /\ pc' = "discover_raw"
                    /\ UNCHANGED <<discovered, mcp_url>>
    /\ UNCHANGED <<args, env, repo, token, runs, metrics, payload, i, mcp_response,
                   analysis, stdout, exit_code>>

\* discover_mcp_from_repo: the GET of the raw URL, its return, and main up to
\* the run-list request
DiscoverRaw ==
    /\ pc = "discover_raw"
    /\ \E r2 \in RawResponses :
        LET found == RawLookup(r2)
        IN  /\ requests' = Append(requests, RawRequest(repo))
            /\ resp' = r2
            /\ discovered' = found
            /\ mcp_url' = AfterDiscovery(mcp_url, found)
            /\ pc' = "fetch"
    /\ UNCHANGED <<args, env, repo, token, runs, metrics, payload, i, mcp_response,
                   analysis, stdout, exit_code>>

\* try: runs = fetch_workflow_runs(...) except Exception: return 3, and
\* len(runs) in compute_metrics
\* (faulty variant: a failed fetch is taken for an empty run list)
FetchOutcomeSwallowed(got) ==
    IF got.t = "none" THEN "TypeError" ELSE "ok"
FetchOutcome(got) ==
    IF got.t = "raise" THEN "return 3"
    ELSE IF got.t # "list" THEN "TypeError"
    ELSE "ok"

Printed(what, value) == [what |-> what, value |-> value]

\* payload
Payload(rp, m) == [repository |-> rp, collected_at |-> "now", metrics |-> m]

\* the run-list request and main up to the first POST: compute_metrics, the
\* payload, and with --no-mcp the local analysis.  A run list that is null
\* raises TypeError in compute_metrics (len(runs)); an mcp_url that is not a
\* str raises AttributeError in try_send_to_mcp (mcp_url.rstrip) before the
\* first POST; neither is caught, and the process ends with status 1.
Fetch ==
    /\ pc = "fetch"
    /\ \E r \in RunsResponses :
        LET got == fetch_workflow_runs(r)
        IN  /\ requests' = Append(requests, RunsRequest(repo, token, args.per_page))
            /\ resp' = r
            /\ IF FetchOutcome(got) = "return 3"
               THEN /\ Exit(3)
                    /\ UNCHANGED <<runs, metrics, payload, analysis, stdout>>
               ELSE IF FetchOutcome(got) = "TypeError"
               THEN /\ Exit(1)
                    /\ UNCHANGED <<runs, metrics, payload, analysis, stdout>>
               ELSE /\ runs' = IF got.t = "list" THEN got.v ELSE <<>>
                    /\ metrics' = compute_metrics(runs')
                    /\ payload' = Payload(repo, metrics')
                    /\ IF args.no_mcp
                       THEN /\ analysis' = local_analysis(metrics')
                            /\ stdout' = stdout \o <<Printed("payload", payload'),
                                                     Printed("analysis", analysis')>>
                            /\ Exit(0)
                       ELSE /\ stdout' = Append(stdout, Printed("payload", payload'))
                            /\ UNCHANGED analysis
                            /\ IF mcp_url.t # "str"
                               THEN Exit(1)
                               ELSE pc' = "forward" /\ UNCHANGED exit_code
    /\ UNCHANGED <<args, env, repo, token, mcp_url, discovered, i, mcp_response>>

\* main after try_send_to_mcp returned value
AfterForward(value) ==
    /\ mcp_response' = value
    /\ IF value # PyNone
       THEN /\ stdout' = Append(stdout, Printed("mcp_response", value))
            /\ UNCHANGED analysis
       ELSE /\ analysis' = local_analysis(metrics)
            /\ stdout' = Append(stdout, Printed("analysis", analysis'))
    /\ Exit(0)

\* one iteration of the loop of try_send_to_mcp: the POST to the next
\* candidate; a 200 response, or the last candidate, ends the loop and main
\* runs to its end
Post ==
    /\ pc = "forward"
    /\ LET suffix == Candidates[i + 1]
       IN  \E r \in PostResponses(suffix, payload) :
            /\ requests' = Append(requests, PostRequest(Endpoint(mcp_url, suffix)))
            /\ resp' = r
            /\ i' = i + 1
            /\ IF Answers200(r)
               THEN AfterForward(Returned(r))
               ELSE IF i' = Len(Candidates)
               THEN AfterForward(PyNone)
               ELSE UNCHANGED <<pc, mcp_response, analysis, stdout, exit_code>>
    /\ UNCHANGED <<args, env, repo, token, mcp_url, discovered, runs, metrics, payload>>

Next == Start \/ DiscoverContents \/ DiscoverRaw \/ Fetch \/ Post

Spec == Init /\ [][Next]_vars

-----------------------------------------------------------------------------
(* compute_metrics and local_analysis on their own *)

InitMetrics ==
    /\ pc = "reduce"
    /\ args = [repo |-> PyNone, mcp_url |-> PyNone, per_page |-> "50", no_mcp |-> TRUE]
    /\ env = [GITHUB_REPOSITORY |-> PyNone, GITHUB_TOKEN |-> PyNone,
              GITHUB_MCP_URL |-> PyNone, MCP_SERVER_URL |-> PyNone]
    /\ runs \in RunLists
    /\ Idle

\* metrics = compute_metrics(runs)
Reduce ==
    /\ pc = "reduce"
    /\ metrics' = compute_metrics(runs)
    /\ pc' = "classify"
    /\ UNCHANGED <<args, env, repo, token, mcp_url, discovered, requests, runs, payload,
                   i, resp, mcp_response, analysis, stdout, exit_code>>

\* analysis = local_analysis(metrics)
Classify ==
    /\ pc = "classify"
    /\ analysis' = local_analysis(metrics)
    /\ pc' = "classified"
    /\ UNCHANGED <<args, env, repo, token, mcp_url, discovered, requests, runs, metrics,
                   payload, i, resp, mcp_response, stdout, exit_code>>

NextMetrics == Reduce \/ Classify

SpecMetrics == InitMetrics /\ [][NextMetrics]_vars

-----------------------------------------------------------------------------
(* Properties of main *)

IsDiscovery(q) == q.op = "discover_mcp_from_repo"
IsFetch(q) == q.op = "fetch_workflow_runs"
IsPost(q) == q.op = "try_send_to_mcp"

DiscoveryRequests == SelectSeq(requests, IsDiscovery)
FetchRequests == SelectSeq(requests, IsFetch)
Posts == SelectSeq(requests, IsPost)

\* the repository identifier is missing from --repo and GITHUB_REPOSITORY
RepoMissing == ~Truthy(args.repo) /\ ~Truthy(env.GITHUB_REPOSITORY)

\* main is past the resolution of mcp_url
Resolved == pc \in {"fetch", "forward"} \/ (pc = "done" /\ ~RepoMissing)

RECURSIVE FirstNonEmpty(_)
FirstNonEmpty(s) ==
    IF s = <<>> THEN PyNone
    ELSE IF Truthy(Head(s)) THEN Head(s) ELSE FirstNonEmpty(Tail(s))

NoStaticUrl ==
    ~Truthy(args.mcp_url) /\ ~Truthy(env.GITHUB_MCP_URL) /\ ~Truthy(env.MCP_SERVER_URL)

\* C1: once main has resolved it, mcp_url is the first non-empty of --mcp-url,
\* GITHUB_MCP_URL, MCP_SERVER_URL, the discovered URL and the default, it is
\* not empty, and a discovery request is made only when --mcp-url and both
\* environment variables are empty.
C1_Precedence ==
    /\ Resolved =>
        /\ mcp_url = FirstNonEmpty(<<args.mcp_url, env.GITHUB_MCP_URL, env.MCP_SERVER_URL,
                                     discovered, DefaultUrl>>)
        /\ Truthy(mcp_url)
    /\ DiscoveryRequests # <<>> => NoStaticUrl
    /\ pc \in {"discover_contents", "discover_raw"} => NoStaticUrl

\* both environment variables are set, --mcp-url is not: GITHUB_MCP_URL wins
C1_Witness ==
    /\ pc = "fetch"
    /\ ~Truthy(args.mcp_url)
    /\ env.GITHUB_MCP_URL = GithubEnvUrl
    /\ env.MCP_SERVER_URL = ServerEnvUrl
    /\ mcp_url = GithubEnvUrl

Is200(r) == r.t = "response" /\ r.status_code = 200

ExpectedSuffixes ==
    << <<"/", "predict">>, <<"/", "analyze">>, <<"/", "v1", "/", "predict">>,
       <<"/", "mcp", "/", "predict">>, <<>> >>

\* C2: the POSTs go to the base URL plus /predict, /analyze, /v1/predict,
\* /mcp/predict and the empty suffix, in this order, one per candidate; the loop
\* goes on only after an exception or a status other than 200, it ends before
\* the last candidate only with a 200 response, and then the value returned is
\* that response's body and the number of POSTs is the candidate's position.
C2_ForwardOrder ==
    /\ Len(Posts) = i
    /\ \A k \in 1..Len(Posts) :
        /\ Posts[k].method = "POST"
        /\ Posts[k].url = rstrip(mcp_url.v) \o ExpectedSuffixes[k]
    /\ pc = "forward" => i < Len(ExpectedSuffixes) /\ (i > 0 => ~Is200(resp))
    /\ (pc = "done" /\ i > 0 /\ ~Is200(resp)) => i = Len(ExpectedSuffixes)
    /\ (pc = "done" /\ i > 0 /\ Is200(resp)) =>
        mcp_response = IF resp.body.t = "json" THEN resp.body.value
                       ELSE [t |-> "dict", raw_text |-> resp.body]

\* the second candidate is the first to answer 200: two POSTs, its body returned
C2_Witness ==
    /\ pc = "done"
    /\ i = 2
    /\ Len(Posts) = 2
    /\ Is200(resp)
    /\ resp.body.t = "json"
    /\ mcp_response = resp.body.value
    /\ mcp_response.t = "dict"

LastPrinted == IF stdout = <<>> THEN "nothing" ELSE stdout[Len(stdout)].what

\* C3: try_send_to_mcp returns None if and only if every candidate was tried
\* and none answered 200; main prints the local analysis (without --no-mcp) only
\* when no candidate answered 200, and the server response whenever one did.
C3_NoneIffExhausted ==
    (pc = "done" /\ i > 0) =>
        /\ mcp_response = PyNone <=> (i = Len(ExpectedSuffixes) /\ ~Is200(resp))
        /\ LastPrinted = "analysis" => ~Is200(resp)
        /\ Is200(resp) => LastPrinted = "mcp_response"

\* the run-list fetch failed: the request raised, the status was an error, or
\* the body was not a JSON object
FetchFailed ==
    /\ requests # <<>>
    /\ IsFetch(requests[Len(requests)])
    /\ \/ resp.t = "raise"
       \/ resp.status_code >= 400
       \/ resp.body.t # "json"
       \/ resp.body.value.t # "dict"

\* C4: main ends with status 2 if the repository identifier is missing, with 3
\* if the run-list fetch fails and with 0 otherwise, and a run that ends with 0
\* has printed a server response or a local analysis.
C4_ExitCodes ==
    pc = "done" =>
        /\ exit_code = IF RepoMissing THEN 2 ELSE IF FetchFailed THEN 3 ELSE 0
        /\ exit_code = 0 => LastPrinted \in {"mcp_response", "analysis"}

\* the Contents API is requested first, with the token if there is one; the raw
\* URL is requested second, without the token, and only if the Contents API
\* response gave no URL; what a response does not give is None
C5_DiscoveryOrder ==
    /\ Len(DiscoveryRequests) <= 2
    /\ \A k \in 1..Len(requests) :
        IsDiscovery(requests[k]) =>
            /\ k <= 2
            /\ requests[k].auth = (k = 1 /\ Truthy(token))
            /\ requests[k] = IF k = 1 THEN ContentsRequest(repo, token) ELSE RawRequest(repo)
    /\ pc = "discover_raw" => /\ ContentsLookup(resp) = PyNone
                              /\ discovered = PyNone
    /\ (pc = "fetch" /\ Len(requests) = 1) => discovered = ContentsLookup(resp)
    /\ (pc = "fetch" /\ Len(requests) = 2) => discovered = RawLookup(resp)

\* resolution ends with a string that is not empty
C5_UsableUrlString == Resolved => (mcp_url.t = "str" /\ mcp_url.v # <<>>)

\* C5: discovery tries the Contents API first and the raw URL only if that gave
\* no URL; every failure of either attempt gives None instead of an exception;
\* so resolution always ends with a usable URL string.
C5_DiscoveryTotal == C5_DiscoveryOrder /\ C5_UsableUrlString

Rank(q) == IF IsDiscovery(q) THEN 1 ELSE IF IsFetch(q) THEN 2 ELSE 3

FetchSucceeded(r) ==
    /\ r.t = "response"
    /\ r.status_code = 200
    /\ r.body.t = "json"
    /\ r.body.value.t = "dict"

\* C10 as amended: the requests of one invocation are made in the order
\* discovery (Contents API, raw URL), run list, POSTs, with one run-list
\* request at most; the metrics exist and the payload is printed only after
\* the run-list request, forwarding starts only after a run-list fetch that
\* succeeded, the payload is printed before the analysis or the server
\* response, and an invocation that ends with status 3 has made no POST and
\* printed no payload, analysis or server response.
C10_ResolveFetchForward ==
    /\ \A j, k \in 1..Len(requests) : j < k => Rank(requests[j]) <= Rank(requests[k])
    /\ Len(FetchRequests) <= 1
    /\ pc \in {"start", "discover_contents", "discover_raw", "fetch"} =>
        (FetchRequests = <<>> /\ Posts = <<>> /\ metrics = PyNone /\ stdout = <<>>)
    /\ (pc = "forward" /\ i = 0) => FetchSucceeded(resp)
    /\ pc = "forward" =>
        (metrics # PyNone /\ metrics.total_runs = Len(runs) /\ FetchRequests # <<>>)
    /\ stdout # <<>> =>
        /\ stdout[1].what = "payload"
        /\ stdout[1].value.metrics = metrics
        /\ Len(stdout) <= 2
        /\ Len(stdout) = 2 => stdout[2].what \in {"analysis", "mcp_response"}
    /\ (pc = "done" /\ exit_code = 3) => (Posts = <<>> /\ stdout = <<>> /\ FetchFailed)

\* both discovery requests were made and the run-list fetch then failed
C10_Witness ==
    /\ pc = "done"
    /\ exit_code = 3
    /\ Len(requests) = 3
    /\ Len(DiscoveryRequests) = 2

\* C10 as stated: endpoint resolution, its discovery requests included, comes
\* after the run-list fetch, so an invocation whose run-list fetch fails has
\* made no discovery request and no forwarding request.
C10_FetchBeforeResolve ==
    /\ (pc = "done" /\ exit_code = 3) => (DiscoveryRequests = <<>> /\ Posts = <<>>)
    /\ DiscoveryRequests # <<>> => IsFetch(requests[1])

-----------------------------------------------------------------------------
(* Properties of compute_metrics and local_analysis *)

Reduced == pc \in {"classify", "classified"}

Positions(cs) == { k \in 1..Len(runs) : runs[k].conclusion \in cs }

\* C6: total_runs is the length of the list, successes the number of runs
\* with conclusion success, failures the number with failure, cancelled or
\* timed_out; their sum is at most total_runs, the difference being the runs of
\* any other conclusion.
C6_Counts ==
    Reduced =>
        /\ metrics.total_runs = Len(runs)
        /\ metrics.successes = Cardinality(Positions({"success"}))
        /\ metrics.failures = Cardinality(Positions({"failure", "cancelled", "timed_out"}))
        /\ metrics.successes + metrics.failures <= metrics.total_runs
        /\ metrics.total_runs - metrics.successes - metrics.failures
             = Cardinality(Positions(Conclusions \ {"success", "failure", "cancelled",
                                                    "timed_out"}))

\* a list with a successful run, a cancelled run and a run that counts in
\* total_runs only
C6_Witness ==
    /\ Reduced
    /\ Positions({"cancelled"}) # {}
    /\ Positions({"success"}) # {}
    /\ Positions({"null"}) # {}
    /\ metrics.successes + metrics.failures < metrics.total_runs

\* the positions of the runs with conclusion failure or timed_out
FailedPositions == Positions({"failure", "timed_out"})

Min(a, b) == IF a <= b THEN a ELSE b

\* C7: recent_failures holds the first 10 (or all, if fewer) of the runs whose
\* conclusion is failure or timed_out, in input order: the j-th entry is the
\* run at the j-th such position; no entry is a cancelled or successful run.
C7_RecentFailures ==
    Reduced =>
        LET rf == metrics.recent_failures
        IN  /\ Len(rf) = Min(10, Cardinality(FailedPositions))
            /\ \A j \in 1..Len(rf) :
                /\ rf[j].id \in FailedPositions
                /\ Cardinality({ k \in FailedPositions : k <= rf[j].id }) = j
                /\ rf[j].conclusion = runs[rf[j].id].conclusion
                /\ rf[j].conclusion \in {"failure", "timed_out"}
                /\ rf[j].name = runs[rf[j].id].name
                /\ rf[j].html_url = runs[rf[j].id].html_url

\* more than 10 such runs, and a cancelled run counted in failures
C7_Witness ==
    /\ Reduced
    /\ Cardinality(FailedPositions) > 10
    /\ Len(metrics.recent_failures) = 10
    /\ Positions({"cancelled"}) # {}
    /\ metrics.failures > Cardinality(FailedPositions)

RateRecs == {RecBelow60, RecBetween, RecAbove90}

\* C8: total_runs = 0 gives no-data with the one recommendation "No workflow
\* runs found for the repository."; otherwise a success_rate below 0.6 gives
\* unhealthy, one of at least 0.6 and below 0.9 degraded, one of at least 0.9
\* healthy, each with its recommendation first and no other rate recommendation.
C8_StatusRules ==
    pc = "classified" =>
        LET m == analysis.metrics
            recs == analysis.recommendations
            s == m.success_rate.num
            n == m.success_rate.den
        IN  IF m.total_runs = 0
            THEN analysis.status = "no-data" /\ recs = <<RecNoRuns>>
            ELSE m.success_rate.t = "float" =>
                /\ 5 * s < 3 * n =>
                    (analysis.status = "unhealthy" /\ recs[1] = RecBelow60)
                /\ (5 * s >= 3 * n /\ 10 * s < 9 * n) =>
                    (analysis.status = "degraded" /\ recs[1] = RecBetween)
                /\ 10 * s >= 9 * n =>
                    (analysis.status = "healthy" /\ recs[1] = RecAbove90)
                /\ Cardinality({ k \in 1..Len(recs) : recs[k] \in RateRecs }) = 1
                /\ RecNoRuns \notin { recs[k] : k \in 1..Len(recs) }

\* 9 successes in 10 runs: a rate of exactly 0.9 is healthy
C8_Witness ==
    /\ pc = "classified"
    /\ analysis.metrics.total_runs = 10
    /\ analysis.metrics.successes = 9
    /\ analysis.status = "healthy"

\* C9: local_analysis(compute_metrics(runs)) never has status unknown nor an
\* empty recommendation list; success_rate is present if and only if the list
\* is not empty, the status is no-data exactly for the empty list and otherwise
\* one of unhealthy, degraded, healthy; the embedded metrics are the reducer's.
C9_NeverUnknown ==
    /\ Reduced => (metrics.success_rate # PyNone <=> runs # <<>>)
    /\ Reduced => (metrics.success_rate # PyNone =>
                     /\ metrics.success_rate.num >= 0
                     /\ metrics.success_rate.num <= metrics.success_rate.den)
    /\ pc = "classified" =>
        /\ analysis.status # "unknown"
        /\ analysis.recommendations # <<>>
        /\ analysis.status = "no-data" <=> runs = <<>>
        /\ runs # <<>> => analysis.status \in {"unhealthy", "degraded", "healthy"}
        /\ analysis.metrics = metrics

\* a list of runs that all have no conclusion yet is classified unhealthy
C9_Witness ==
    /\ pc = "classified"
    /\ runs # <<>>
    /\ Positions({"null"}) = 1..Len(runs)
    /\ analysis.status = "unhealthy"
    /\ analysis.metrics.success_rate = Ratio(0, Len(runs))

=============================================================================
